---- MODULE Spec2Model ----
(***************************************************************************)
(* A model of extract_msg.message_base.MessageBase: the lazily resolved    *)
(* fields of a message (header, recipients, body, htmlBody, ...), the      *)
(* attachment list with its error policy and deferred construction, the    *)
(* relay of named properties and close().                                  *)
(*                                                                         *)
(* Python values are tagged records: Unset is "the attribute does not      *)
(* exist" (getattr raises AttributeError), None is Python's None, Str and  *)
(* Bytes carry a sequence of one-character strings.                        *)
(***************************************************************************)
EXTENDS Integers, Sequences, FiniteSets, TLC

VARIABLES
    phase,                   \* "new": before __init__; "live"; "failed": __init__ raised; "closed"
    delayAttachments,        \* argument of __init__
    attachmentErrorBehavior, \* argument of __init__
    recipientSeparator,      \* argument of __init__
    container,               \* what the container holds: listDir, streams, attachment and recipient entries
    self,                    \* the attributes of the MessageBase instance
    last,                    \* the last call made by the caller
    firstRead,               \* per field, the outcome of the caller's first read of it
    ops                      \* number of calls the caller has made after __init__

vars == <<phase, delayAttachments, attachmentErrorBehavior, recipientSeparator,
          container, self, last, firstRead, ops>>

---------------------------------------------------------------------------
(* Bounds of the model. *)

\* calls a caller makes on one message
MaxOps == 3
\* directories the container lists
MaxDirs == 3

---------------------------------------------------------------------------
(* Python values. *)

Unset == [tag |-> "unset"]
None == [tag |-> "None"]
Str(s) == [tag |-> "str", v |-> s]
Bytes(s) == [tag |-> "bytes", v |-> s]
Lst(s) == [tag |-> "list", v |-> s]
Exc(e) == [tag |-> "exception", v |-> e]

\* Python truth value of the values a stream or a cached field can hold.
Truthy(x) ==
    CASE x.tag = "None" -> FALSE
      [] x.tag = "unset" -> FALSE
      [] x.tag \in {"str", "bytes", "list", "headerText"} -> Len(x.v) > 0
      [] OTHER -> TRUE

(***************************************************************************)
(* A call takes the instance o and gives the instance afterwards, in which *)
(* val is the value the call returned and exc the exception it raised      *)
(* (None when it returned).                                                *)
(***************************************************************************)
Ret(o, v) == [o EXCEPT !.val = v, !.exc = None]
Raise(o, e) == [o EXCEPT !.val = None, !.exc = e]

\* self.<variable> = value; return value
cache(o, variable, value) == Ret([o EXCEPT ![variable] = value], value)

---------------------------------------------------------------------------
(* Strings as sequences of characters. *)

RECURSIVE replace(_, _, _)
replace(s, old, new) ==
    IF Len(s) < Len(old) \/ Len(old) = 0 THEN s
    ELSE IF SubSeq(s, 1, Len(old)) = old
         THEN new \o replace(SubSeq(s, Len(old) + 1, Len(s)), old, new)
         ELSE <<Head(s)>> \o replace(Tail(s), old, new)

RECURSIVE find(_, _)
find(s, sub) ==
    IF Len(s) < Len(sub) THEN FALSE
    ELSE SubSeq(s, 1, Len(sub)) = sub \/ find(Tail(s), sub)

RECURSIVE join(_, _)
join(sep, parts) ==
    IF Len(parts) = 0 THEN <<>>
    ELSE IF Len(parts) = 1 THEN parts[1]
    ELSE parts[1] \o sep \o join(sep, Tail(parts))

\* str.replace / bytes.replace: the arguments must be of the receiver's kind,
\* else TypeError; an exception raised before it goes through.
pyReplace(x, old, new) ==
    IF x.tag = "exception" THEN x
    ELSE IF x.tag = old.tag /\ x.tag = new.tag
         THEN [tag |-> x.tag, v |-> replace(x.v, old.v, new.v)]
         ELSE Exc("TypeError")

encode(x) == Bytes(x.v)

---------------------------------------------------------------------------
(* The container (MSGFile collaborators). *)

AttachDirs == {"__attach_version1.0_#00000000", "__attach_version1.0_#00000001"}
RecipDirs == {"__recip_version1.0_#00000000", "__recip_version1.0_#00000001"}
OtherDirs == {"__nameid_version1.0"}

_getStringStream(streamID) == container.streams[streamID]

_getStream(streamID) == container.streams[streamID]

listDir == container.listDir

\* str.startswith on a directory name, for the two markers the code uses.
startswith(dir_, marker) ==
    CASE marker = "__attach" -> dir_ \in AttachDirs
      [] marker = "__recip" -> dir_ \in RecipDirs
      [] OTHER -> FALSE

InSeq(x, s) == \E i \in 1..Len(s) : s[i] = x

\* The loop that collects the distinct directory names carrying a marker.
RECURSIVE collectDirs(_, _, _)
collectDirs(dirs, marker, acc) ==
    IF Len(dirs) = 0 THEN acc
    ELSE collectDirs(Tail(dirs), marker,
                     IF startswith(Head(dirs), marker) /\ ~InSeq(Head(dirs), acc)
                     THEN Append(acc, Head(dirs)) ELSE acc)

---------------------------------------------------------------------------
(* The header object (email.message.Message): a list of name/value pairs;  *)
(* lookup is case-insensitive and returns the first match, None when there *)
(* is none; assignment and add_header append.                              *)

Hdr(pairs) == [tag |-> "header", v |-> pairs]
HeaderText(pairs) == [tag |-> "headerText", v |-> pairs]

lower(name) ==
    CASE name = "Date" -> "date"
      [] name = "From" -> "from"
      [] name = "To" -> "to"
      [] name = "Cc" -> "cc"
      [] name = "Bcc" -> "bcc"
      [] name = "Message-Id" -> "message-id"
      [] name = "Authentication-Results" -> "authentication-results"
      [] OTHER -> name

parsestr(headerText) == IF headerText.tag = "headerText" THEN Hdr(headerText.v) ELSE Hdr(<<>>)

getitem(h, name) ==
    LET hits == SelectSeq(h.v, LAMBDA p : lower(p.name) = lower(name))
    IN IF Len(hits) = 0 THEN None ELSE hits[1].value

setitem(h, name, value) == Hdr(Append(h.v, [name |-> name, value |-> value]))

add_header(h, name, value) ==
    setitem(h, name, IF value = None THEN Str(<<>>) ELSE value)

---------------------------------------------------------------------------
(* Simple resolvers. *)

headerInit(o) == o._header # Unset

\* MSGFile._ensureSet: return the cached attribute, else fetch the stream,
\* cache it (None when the stream is absent) and return it.
_ensureSet(o, variable, streamID, stringStream) ==
    IF o[variable] # Unset THEN Ret(o, o[variable])
    ELSE IF stringStream THEN cache(o, variable, _getStringStream(streamID))
    ELSE cache(o, variable, _getStream(streamID))

date(o) ==
    IF o._date # Unset THEN Ret(o, o._date)
    ELSE cache(o, "_date", container.date)

subject(o) == _ensureSet(o, "_subject", "__substg1.0_0037", TRUE)

compressedRtf(o) == _ensureSet(o, "_compressedRtf", "__substg1.0_10090102", FALSE)

\* Recipient(recipientDir, self): the entry's type and formatted string.
Recipient(recipientDir) == container.recipient[recipientDir]

\* Lines 471-474
recipientList(recipientDirs) ==
    Lst([i \in 1..Len(recipientDirs) |-> Recipient(recipientDirs[i])])

recipients(o) ==
    IF o._recipients # Unset THEN Ret(o, o._recipients)
    ELSE cache(o, "_recipients", recipientList(collectDirs(listDir, "__recip", <<>>)))

RECURSIVE collapseSpaces(_)
collapseSpaces(value) ==
    IF find(value, <<" ", " ">>) THEN collapseSpaces(replace(value, <<" ", " ">>, <<" ">>))
    ELSE value

\* Lines 105-108: fold the value onto a single line.
singleLine(value) ==
    collapseSpaces(
        replace(replace(replace(replace(replace(replace(value,
            <<" ", "\r", "\n", "\t">>, <<" ">>),
            <<"\r", "\n", "\t", " ">>, <<" ">>),
            <<"\r", "\n", "\t">>, <<" ">>),
            <<"\r", "\n">>, <<" ">>),
            <<"\r">>, <<" ">>),
            <<"\n">>, <<" ">>))

private(recipientType) ==
    CASE recipientType = "to" -> "_to"
      [] recipientType = "cc" -> "_cc"
      [] recipientType = "bcc" -> "_bcc"

\* Lines 86-87 without the replacement.
commaKept(value, separator) == value

\* Lines 86-87
commaToSeparator(value, separator) ==
    IF Truthy(value) THEN Str(replace(value.v, <<",">>, separator)) ELSE value

\* Lines 84-87: the value the header gives.
fromHeader(o, recipientType) ==
    IF headerInit(o)
    THEN commaToSeparator(getitem(o._header, recipientType), o.recipientSeparator)
    ELSE None

\* Line 96 without the mask 0x0000000f.
foundRecipientsUnmasked(list, recipientInt) ==
    [i \in 1..Len(SelectSeq(list, LAMBDA recipient : recipient.type = recipientInt)) |->
        SelectSeq(list, LAMBDA recipient : recipient.type = recipientInt)[i].formatted.v]

\* Line 96
foundRecipients(list, recipientInt) ==
    [i \in 1..Len(SelectSeq(list, LAMBDA recipient : recipient.type % 16 = recipientInt)) |->
        SelectSeq(list, LAMBDA recipient : recipient.type % 16 = recipientInt)[i].formatted.v]

\* Lines 96-100, r being the instance after self.recipients
fromRecipients(r, value, recipientInt) ==
    IF Len(foundRecipients(r._recipients.v, recipientInt)) > 0
    THEN Ret(r, Str(join(r.recipientSeparator \o <<" ">>,
                         foundRecipients(r._recipients.v, recipientInt))))
    ELSE Ret(r, value)

\* Lines 90-100
generated(o, value, recipientInt) ==
    IF Truthy(value) THEN Ret(o, value)
    ELSE fromRecipients(recipients(o), value, recipientInt)

\* Lines 104-108
formatted(value) == IF Truthy(value) THEN Str(singleLine(value.v)) ELSE value

\* Lines 111-113, g being the instance after the value has been generated
setRecipient(g, recipientType) == cache(g, private(recipientType), formatted(g.val))

_genRecipient(o, recipientType, recipientInt) ==
    IF o[private(recipientType)] # Unset THEN Ret(o, o[private(recipientType)])
    ELSE setRecipient(generated(o, fromHeader(o, recipientType), recipientInt), recipientType)

to(o) == _genRecipient(o, "to", 1)

cc(o) == _genRecipient(o, "cc", 2)

bcc(o) == _genRecipient(o, "bcc", 3)

\* Lines 508-514 without the email address appended to the name.
senderNameOnly(text, email) == IF text = None THEN email ELSE text

\* Lines 508-514
senderFromStreams(text, email) ==
    IF text = None THEN email
    ELSE IF email # None THEN Str(text.v \o <<" ", "<">> \o email.v \o <<">">>)
    ELSE text

sender(o) ==
    IF o._sender # Unset THEN Ret(o, o._sender)
    ELSE IF headerInit(o) /\ getitem(o._header, "from") # None
         THEN cache(o, "_sender", getitem(o._header, "from"))
         ELSE cache(o, "_sender", senderFromStreams(_getStringStream("__substg1.0_0C1A"),
                                                    _getStringStream("__substg1.0_5D01")))

messageId(o) ==
    IF o._messageId # Unset THEN Ret(o, o._messageId)
    ELSE IF headerInit(o) /\ getitem(o._header, "message-id") # None
         THEN cache(o, "_messageId", getitem(o._header, "message-id"))
         ELSE cache(o, "_messageId", _getStringStream("__substg1.0_1035"))

\* Lines 331-332 with the parsed header returned but not stored.
parsedHeaderNotStored(d, headerText) ==
    Ret(d, setitem(parsestr(headerText), "date", d.val))

\* Lines 331-332, d being the instance after self.date
parsedHeader(d, headerText) ==
    cache(d, "_header", setitem(parsestr(headerText), "date", d.val))

\* Lines 335-344 with From and To given each other's value.
synthesizedHeaderSwapped(r) ==
    cache(r, "_header",
          add_header(add_header(add_header(add_header(add_header(add_header(add_header(
              parsestr(Str(<<>>)),
              "Date", r._date),
              "From", r._to),
              "To", r._sender),
              "Cc", r._cc),
              "Bcc", r._bcc),
              "Message-Id", r._messageId),
              "Authentication-Results", None))

\* Lines 335-344, r being the instance after self.date, self.sender, self.to,
\* self.cc, self.bcc and self.messageId, each of which returned what it cached.
synthesizedHeader(r) ==
    cache(r, "_header",
          add_header(add_header(add_header(add_header(add_header(add_header(add_header(
              parsestr(Str(<<>>)),
              "Date", r._date),
              "From", r._sender),
              "To", r._to),
              "Cc", r._cc),
              "Bcc", r._bcc),
              "Message-Id", r._messageId),
              "Authentication-Results", None))

header(o) ==
    IF o._header # Unset THEN Ret(o, o._header)
    ELSE IF Truthy(_getStringStream("__substg1.0_007D"))
         THEN parsedHeader(date(o), _getStringStream("__substg1.0_007D"))
         ELSE synthesizedHeader(messageId(bcc(cc(to(sender(date(o)))))))

---------------------------------------------------------------------------
(* The RTF pipeline, body and htmlBody.                                    *)
(* A compressed-RTF stream is a one-token byte string naming what it       *)
(* holds: "html" or "text" (encapsulated content), "plain" (RTF that       *)
(* encapsulates nothing), "bad" (malformed encapsulation), "empty"         *)
(* (decompresses to no bytes).                                             *)

\* compressed_rtf.decompress
decompress(data) ==
    IF data.v = <<"empty">> THEN Bytes(<<>>) ELSE Bytes(<<"{\\rtf1">> \o data.v)

\* RTFDE.DeEncapsulator(rtf) followed by deencapsulate(): the deencapsulator,
\* or the exception raised.
DeEncapsulator(rtf) ==
    CASE rtf.v[2] = "html" ->
           [tag |-> "DeEncapsulator", content_type |-> "html",
            html |-> <<"<", "p", ">">>, text |-> <<>>]
      [] rtf.v[2] = "text" ->
           [tag |-> "DeEncapsulator", content_type |-> "text",
            html |-> <<>>, text |-> <<"t", "\n">>]
      [] rtf.v[2] = "plain" -> Exc("NotEncapsulatedRtf")
      [] OTHER -> Exc("MalformedEncapsulatedRtf")

\* utils.inputToString: decode bytes, leave a string as it is.
inputToString(x) == Str(x.v)

\* Line 486, c being the instance after self.compressedRtf
decompressed(c) ==
    IF Truthy(c.val)
    THEN cache([c EXCEPT !.calls.decompress = @ + 1], "_rtfBody", decompress(c.val))
    ELSE cache(c, "_rtfBody", None)

rtfBody(o) ==
    IF o._rtfBody # Unset THEN Ret(o, o._rtfBody)
    ELSE decompressed(compressedRtf(o))

\* Lines 291-299: the two exceptions leave None.
caught(d) == IF d.tag = "exception" THEN None ELSE d

\* Lines 289-302 with the except clauses leaving _deencapsultor unset.
deencapsulatedUnsetOnError(r) ==
    IF Truthy(r.val)
    THEN IF DeEncapsulator(r.val).tag = "exception"
         THEN Ret([r EXCEPT !.calls.deencapsulate = @ + 1], None)
         ELSE cache([r EXCEPT !.calls.deencapsulate = @ + 1], "_deencapsultor",
                    DeEncapsulator(r.val))
    ELSE cache(r, "_deencapsultor", None)

\* Lines 289-302, r being the instance after self.rtfBody
deencapsulated(r) ==
    IF Truthy(r.val)
    THEN cache([r EXCEPT !.calls.deencapsulate = @ + 1], "_deencapsultor",
               caught(DeEncapsulator(r.val)))
    ELSE cache(r, "_deencapsultor", None)

deencapsulatedRtf(o) ==
    IF o._deencapsultor # Unset THEN Ret(o, o._deencapsultor)
    ELSE deencapsulated(rtfBody(o))

\* Lines 235-239
decodedBody(o, value) ==
    cache([o EXCEPT !.crlf = IF find(value.v, <<"\n">>) /\ find(value.v, <<"\r", "\n">>)
                             THEN Str(<<"\r", "\n">>) ELSE @],
          "_body", value)

\* Lines 243-245 without the test of content_type.
bodyFromAnyRtf(d) ==
    IF Truthy(d.val) THEN cache(d, "_body", Str(d.val.text)) ELSE Ret(d, d._body)

\* Lines 243-245, d being the instance after self.deencapsulatedRtf
bodyFromRtf(d) ==
    IF Truthy(d.val) /\ d.val.content_type = "text"
    THEN cache(d, "_body", Str(d.val.text))
    ELSE Ret(d, d._body)

body(o) ==
    IF o._body # Unset THEN Ret(o, o._body)
    ELSE IF Truthy(_getStringStream("__substg1.0_1000"))
         THEN decodedBody(o, inputToString(_getStringStream("__substg1.0_1000")))
         ELSE bodyFromRtf(deencapsulatedRtf(
                  [o EXCEPT !._body = _getStringStream("__substg1.0_1000")]))

\* Line 383: the f-string around the corrected body.
wrapped(correctedBody) ==
    IF correctedBody.tag = "exception" THEN correctedBody
    ELSE Str(<<"<html><body>">> \o correctedBody.v \o <<"</body></head>">>)

\* Lines 382-383: the HTML generated from the plain text body, or the
\* exception raised on the way.
htmlFromBody(text) ==
    wrapped(pyReplace(pyReplace(encode(text), Str(<<"\r">>), Str(<<>>)),
                      Str(<<"\n">>), Str(<<"<", "/", "b", "r", ">">>)))

\* Lines 382-383, b being the instance after self.body
htmlSet(b, html) ==
    IF html.tag = "exception" THEN Raise(b, html) ELSE cache(b, "_htmlBody", html)

\* Lines 379-385; logger.into is a method the logger does not have.
htmlFromText(b) ==
    IF Truthy(b.val) THEN htmlSet(b, htmlFromBody(b.val))
    ELSE Raise(b, Exc("AttributeError"))

\* Lines 375-378, d being the instance after self.deencapsulatedRtf
htmlFromRtf(d) ==
    IF Truthy(d.val) /\ d.val.content_type = "html"
    THEN cache(d, "_htmlBody", encode(Str(d.val.html)))
    ELSE Ret(d, d._htmlBody)

\* Lines 373-385, r being the instance after self.rtfBody
htmlFromRtfOrText(r) ==
    IF Truthy(r.val) THEN htmlFromRtf(deencapsulatedRtf(r))
    ELSE htmlFromText(body(r))

\* Lines 370-387, e being the instance after _ensureSet
htmlFromStream(e) ==
    IF Truthy(e.val) THEN Ret(e, e._htmlBody)
    ELSE htmlFromRtfOrText(rtfBody(e))

htmlBody(o) ==
    IF o._htmlBody # Unset THEN Ret(o, o._htmlBody)
    ELSE htmlFromStream(_ensureSet(o, "_htmlBody", "__substg1.0_10130102", FALSE))

---------------------------------------------------------------------------
(* defaultFolderName. A date is the string of a point in time, carried as  *)
(* [tag |-> "date", v |-> <<year, month, day, hour, minute>>]; any other   *)
(* string does not parse.                                                  *)

Date(y, m, d, H, M) == [tag |-> "date", v |-> <<y, m, d, H, M>>]

\* email.utils.parsedate: the time tuple, None when the date does not parse.
parsedate(x) == IF x.tag = "date" THEN [tag |-> "tuple", v |-> x.v] ELSE None

\* Line 449, d being the instance after self.date
parsed(d) == Ret(d, parsedate(d.val))

parsedDate(o) == parsed(date(o))

Digits == <<"0", "1", "2", "3", "4", "5", "6", "7", "8", "9">>

RECURSIVE decimal(_)
decimal(n) == IF n < 10 THEN <<Digits[n + 1]>> ELSE decimal(n \div 10) \o <<Digits[(n % 10) + 1]>>

\* format spec 02d
format02d(n) == IF n < 10 THEN <<"0">> \o decimal(n) ELSE decimal(n)

\* utils.prepareFilename: drop the characters a file name cannot hold.
prepareFilename(text) ==
    SelectSeq(text, LAMBDA ch : ch \notin {"\\", "/", ":", "*", "?", "\"", "<", ">", "|"})

\* Line 314 with the month and the day before the year.
dirNameMonthFirst(d) ==
    IF d # None
    THEN format02d(d.v[2]) \o <<"-">> \o format02d(d.v[3]) \o <<"-">> \o format02d(d.v[1])
         \o <<"_">> \o format02d(d.v[4]) \o format02d(d.v[5])
    ELSE <<"UnknownDate">>

\* Line 314
dirNameOf(d) ==
    IF d # None
    THEN format02d(d.v[1]) \o <<"-">> \o format02d(d.v[2]) \o <<"-">> \o format02d(d.v[3])
         \o <<"_">> \o format02d(d.v[4]) \o format02d(d.v[5])
    ELSE <<"UnknownDate">>

\* Line 315
subjectPart(subject_) ==
    IF Truthy(subject_) THEN prepareFilename(subject_.v) ELSE <<"[No subject]">>

\* Lines 312-318, s being the instance after self.parsedDate and self.subject
folderNamed(s) ==
    cache(s, "_defaultFolderName",
          Str(dirNameOf(parsedate(s._date)) \o <<" ">> \o subjectPart(s.val)))

defaultFolderName(o) ==
    IF o._defaultFolderName # Unset THEN Ret(o, o._defaultFolderName)
    ELSE folderNamed(subject(parsedDate(o)))

---------------------------------------------------------------------------
(* Attachments.                                                            *)
(* container.attachment[dir] tells what the entry is: "ctor" is what       *)
(* attachmentClass(self, dir) does ("msg" or "data": an attachment of that *)
(* type; "unrecognized": raises UnrecognizedMSGTypeError; "error": raises  *)
(* another Exception), "relay" what the attachment's                       *)
(* _registerNamedProperty does and "close" what closing its embedded       *)
(* message does ("ok", "raise", or for close "AttributeError").            *)

ATTACHMENT_ERROR_THROW == 0
ATTACHMENT_ERROR_NOT_IMPLEMENTED == 1
ATTACHMENT_ERROR_BROKEN == 2

\* An attachment object: named is the list of the named properties it has
\* been given, closed the number of times its embedded message was closed.
NewAttachment(class, attachmentDir, type) ==
    [tag |-> "attachment", dir |-> attachmentDir, class |-> class, type |-> type,
     named |-> <<>>, closed |-> 0]

\* self.attachmentClass(self, attachmentDir): the attachment, or the
\* exception raised.
attachmentClass(attachmentDir) ==
    CASE container.attachment[attachmentDir].ctor \in {"msg", "data"} ->
              NewAttachment("Attachment", attachmentDir, container.attachment[attachmentDir].ctor)
      [] container.attachment[attachmentDir].ctor = "unrecognized" ->
              Exc("UnrecognizedMSGTypeError")
      [] OTHER -> Exc("Exception")

UnsupportedAttachment(attachmentDir) ==
    NewAttachment("UnsupportedAttachment", attachmentDir, "unsupported")

BrokenAttachment(attachmentDir) ==
    NewAttachment("BrokenAttachment", attachmentDir, "broken")

\* Line 178 with >= in place of >: the strictest policy tolerates too.
toleratesUnsupportedFromThrow(behavior) == behavior >= ATTACHMENT_ERROR_THROW

\* Line 178
toleratesUnsupported(behavior) == behavior > ATTACHMENT_ERROR_THROW

\* Line 185
toleratesBroken(behavior) == behavior = ATTACHMENT_ERROR_BROKEN

\* Lines 165-170 without the test "not in attachmentDirs".
attachmentDirsRepeated(listing) == SelectSeq(listing, LAMBDA d : startswith(d, "__attach"))

\* Lines 165-170
attachmentDirs(listing) == collectDirs(listing, "__attach", <<>>)

append(o, attachment) == [o EXCEPT !._attachments = Lst(Append(@.v, attachment))]

\* Lines 176-190: what becomes of the outcome c of attachmentClass.
constructed(o, c, attachmentDir) ==
    IF c.tag # "exception" THEN append(o, c)
    ELSE IF c \in {Exc("NotImplementedError"), Exc("UnrecognizedMSGTypeError")}
         THEN IF toleratesUnsupported(o.attachmentErrorBehavior)
              THEN append(o, UnsupportedAttachment(attachmentDir))
              ELSE Raise(o, c)
         ELSE IF toleratesBroken(o.attachmentErrorBehavior)
              THEN append(o, BrokenAttachment(attachmentDir))
              ELSE Raise(o, c)

\* Lines 175-190: one turn of the loop over attachmentDirs.
constructAttachment(o, attachmentDir) ==
    constructed([o EXCEPT !.calls.attachmentClass = @ + 1],
                attachmentClass(attachmentDir), attachmentDir)

\* Lines 174-190: the loop, which an exception ends.
RECURSIVE constructAttachments(_, _)
constructAttachments(o, dirs) ==
    IF Len(dirs) = 0 \/ o.exc # None THEN o
    ELSE constructAttachments(constructAttachment(o, Head(dirs)), Tail(dirs))

\* attachment._registerNamedProperty(*prop) on the i-th attachment.
attachmentRegister(o, i, prop) ==
    IF container.attachment[o._attachments.v[i].dir].relay = "raise"
    THEN Raise(o, Exc("Exception"))
    ELSE [o EXCEPT !._attachments.v[i].named = Append(@, prop)]

\* for attachment in attachments (from the i-th on): for prop in props (from
\* the j-th on): attachment._registerNamedProperty(*prop); an exception ends it.
RECURSIVE registerAll(_, _, _, _)
registerAll(o, i, props, j) ==
    IF o.exc # None \/ i > Len(o._attachments.v) THEN o
    ELSE IF j > Len(props) THEN registerAll(o, i + 1, props, 1)
    ELSE registerAll(attachmentRegister(o, i, props[j]), i, props, j + 1)

\* Lines 199-200: except: pass
swallowed(o) == [o EXCEPT !.exc = None]

\* Lines 193-200: the queued registrations.
replayWaiting(o) ==
    IF o.waitingProperties = Unset THEN o
    ELSE IF o.attachmentsDelayed
         THEN swallowed(registerAll(o, 1, o.waitingProperties.v, 1))
         ELSE o

\* Line 202
returned(r) == Ret(r, r._attachments)

\* Lines 192-202, built being the instance after the loop
resolved(built) ==
    IF built.exc # None THEN built
    ELSE returned(replayWaiting([built EXCEPT !.attachmentsReady = TRUE]))

attachments(o) ==
    IF o._attachments # Unset THEN Ret(o, o._attachments)
    ELSE resolved(constructAttachments([o EXCEPT !._attachments = Lst(<<>>)],
                                       attachmentDirs(listDir)))

\* MSGFile._registerNamedProperty: the message's own table.
superRegisterNamedProperty(o, prop) ==
    Ret([o EXCEPT !.namedProperties = Append(@, prop)], None)

\* Lines 117-121
queued(o, prop) ==
    [o EXCEPT !.waitingProperties = IF @ = Unset THEN Lst(<<prop>>) ELSE Lst(Append(@.v, prop))]

\* Line 126, r being the instance after the relay
relayed(r, prop) ==
    IF r.exc # None THEN r ELSE superRegisterNamedProperty(r, prop)

_registerNamedProperty(o, prop) ==
    IF o.attachmentsDelayed /\ ~o.attachmentsReady
    THEN superRegisterNamedProperty(queued(o, prop), prop)
    ELSE relayed(registerAll(attachments(o), 1, <<prop>>, 1), prop)

\* MSGFile.close
superClose(o) == Ret([o EXCEPT !.closed = TRUE], None)

\* attachment.data.close() on the i-th attachment
dataClose(o, i) ==
    CASE container.attachment[o._attachments.v[i].dir].close = "ok" ->
              [o EXCEPT !._attachments.v[i].closed = @ + 1]
      [] container.attachment[o._attachments.v[i].dir].close = "AttributeError" ->
              Raise(o, Exc("AttributeError"))
      [] OTHER -> Raise(o, Exc("Exception"))

\* Lines 132-134 from the i-th attachment on; an exception ends the loop.
RECURSIVE closeAttachments(_, _)
closeAttachments(o, i) ==
    IF o.exc # None \/ i > Len(o._attachments.v) THEN o
    ELSE IF o._attachments.v[i].type = "msg" THEN closeAttachments(dataClose(o, i), i + 1)
    ELSE closeAttachments(o, i + 1)

\* Lines 135-137, c being the instance after the loop
closedBase(c) ==
    IF c.exc # None /\ c.exc # Exc("AttributeError") THEN c
    ELSE superClose(swallowed(c))

\* Lines 129-137 without the probe of self._attachments on line 131.
closeLoading(o) == closedBase(closeAttachments(attachments(o), 1))

close(o) ==
    IF o._attachments = Unset THEN superClose(o)
    ELSE closedBase(closeAttachments(o, 1))

---------------------------------------------------------------------------
(* Construction. *)

\* The instance before __init__ has run: no attribute exists.
Blank ==
    [attachmentsDelayed |-> FALSE, attachmentsReady |-> FALSE,
     attachmentErrorBehavior |-> ATTACHMENT_ERROR_THROW, recipientSeparator |-> <<>>,
     crlf |-> Unset, waitingProperties |-> Unset, namedProperties |-> <<>>, closed |-> FALSE,
     _attachments |-> Unset, _recipients |-> Unset, _header |-> Unset, _date |-> Unset,
     _to |-> Unset, _cc |-> Unset, _bcc |-> Unset, _sender |-> Unset, _messageId |-> Unset,
     _subject |-> Unset, _body |-> Unset, _htmlBody |-> Unset, _compressedRtf |-> Unset,
     _rtfBody |-> Unset, _deencapsultor |-> Unset, _defaultFolderName |-> Unset,
     \* how often each collaborator has been invoked
     calls |-> [attachmentClass |-> 0, decompress |-> 0, deencapsulate |-> 0],
     \* the outcome of the last call
     val |-> None, exc |-> None]

\* Lines 54-57
configured(o) ==
    [o EXCEPT !.attachmentErrorBehavior = attachmentErrorBehavior,
              !.attachmentsDelayed = delayAttachments,
              !.attachmentsReady = FALSE,
              !.recipientSeparator = recipientSeparator]

\* Lines 64-65 without the test of delayAttachments.
initAttachmentsAlways(o) == attachments(o)

\* Lines 64-65
initAttachments(o) == IF ~delayAttachments THEN attachments(o) ELSE o

\* Line 70
setCrlf(o) == [o EXCEPT !.crlf = Str(<<"\n">>)]

\* Lines 66-72, a being the instance after lines 54-65
initRest(a) ==
    IF a.exc # None THEN a
    ELSE Ret(body(setCrlf(date(sender(cc(to(a)))))), None)

__init__(o) == initRest(initAttachments(recipients(header(configured(o)))))

---------------------------------------------------------------------------
(* The calls a caller makes. *)

Fields == {"header", "to", "cc", "bcc", "sender", "messageId", "date", "body", "htmlBody",
           "rtfBody", "deencapsulatedRtf", "recipients", "attachments", "defaultFolderName"}

resolve(field, o) ==
    CASE field = "header" -> header(o)
      [] field = "to" -> to(o)
      [] field = "cc" -> cc(o)
      [] field = "bcc" -> bcc(o)
      [] field = "sender" -> sender(o)
      [] field = "messageId" -> messageId(o)
      [] field = "date" -> date(o)
      [] field = "body" -> body(o)
      [] field = "htmlBody" -> htmlBody(o)
      [] field = "rtfBody" -> rtfBody(o)
      [] field = "deencapsulatedRtf" -> deencapsulatedRtf(o)
      [] field = "recipients" -> recipients(o)
      [] field = "attachments" -> attachments(o)
      [] field = "defaultFolderName" -> defaultFolderName(o)

\* The instance as a call finds it: the outcome of the previous call is gone.
called(o) == [o EXCEPT !.val = None, !.exc = None]

\* What the caller holds of a list of attachments: the attachment objects,
\* whatever has been done to them since.
Identity(list) ==
    Lst([i \in 1..Len(list.v) |-> [dir |-> list.v[i].dir, class |-> list.v[i].class]])

\* The outcome of the last call the caller made.
ret ==
    [op |-> last.op, field |-> last.field, prop |-> last.prop,
     out |-> IF self.exc = None THEN "return" ELSE "raise",
     val |-> IF self.exc # None THEN self.exc
             ELSE IF last.field = "attachments" THEN Identity(self.val)
             ELSE self.val]

Construct ==
    /\ phase = "new"
    /\ self' = __init__(self)
    /\ phase' = IF self'.exc = None THEN "live" ELSE "failed"
    /\ last' = [op |-> "__init__", field |-> "", prop |-> 0]
    /\ UNCHANGED <<delayAttachments, attachmentErrorBehavior, recipientSeparator,
                   container, firstRead, ops>>

Read(field) ==
    /\ phase = "live"
    /\ ops < MaxOps
    /\ self' = resolve(field, called(self))
    /\ last' = [op |-> "read", field |-> field, prop |-> 0]
    /\ firstRead' = IF firstRead[field] = Unset
                    THEN [firstRead EXCEPT ![field] = [out |-> ret'.out, val |-> ret'.val]]
                    ELSE firstRead
    /\ ops' = ops + 1
    /\ UNCHANGED <<phase, delayAttachments, attachmentErrorBehavior, recipientSeparator, container>>

ReadAttachments == Read("attachments")

ReadField == \E field \in Fields : Read(field)

\* The caller's k-th call registers the named property k.
RegisterNamedProperty ==
    /\ phase = "live"
    /\ ops < MaxOps
    /\ self' = _registerNamedProperty(called(self), ops + 1)
    /\ last' = [op |-> "_registerNamedProperty", field |-> "", prop |-> ops + 1]
    /\ ops' = ops + 1
    /\ UNCHANGED <<phase, delayAttachments, attachmentErrorBehavior, recipientSeparator,
                   container, firstRead>>

Close ==
    /\ phase = "live"
    /\ ops < MaxOps
    /\ self' = close(called(self))
    /\ phase' = IF self'.exc = None THEN "closed" ELSE "live"
    /\ last' = [op |-> "close", field |-> "", prop |-> 0]
    /\ ops' = ops + 1
    /\ UNCHANGED <<delayAttachments, attachmentErrorBehavior, recipientSeparator,
                   container, firstRead>>

---------------------------------------------------------------------------
(* The containers the model is run on. *)

Entry(ctor, relay, closing) == [ctor |-> ctor, relay |-> relay, close |-> closing]

Entries ==
    {Entry("data", "ok", "ok"), Entry("data", "raise", "ok"),
     Entry("msg", "ok", "ok"), Entry("msg", "ok", "raise"), Entry("msg", "ok", "AttributeError"),
     Entry("unrecognized", "ok", "ok"), Entry("error", "ok", "ok")}

SeqsUpTo(S, n) == UNION {[1..k -> S] : k \in 0..n}

Range(s) == {s[i] : i \in 1..Len(s)}

StreamIDs ==
    {"__substg1.0_007D", "__substg1.0_1000", "__substg1.0_10130102", "__substg1.0_10090102",
     "__substg1.0_0C1A", "__substg1.0_5D01", "__substg1.0_1035", "__substg1.0_0037"}

NoStreams == [id \in StreamIDs |-> None]

DefaultRecipients ==
    [d \in RecipDirs |-> [type |-> 1, formatted |-> Str(<<"B">>)]]

DefaultAttachments == [d \in AttachDirs |-> Entry("data", "ok", "ok")]

\* Containers for the attachment lifecycle: every listing of up to MaxDirs
\* directories and every kind of entry behind the listed attachment names.
LifecycleContainers ==
    {[listDir |-> listing, attachment |-> att, recipient |-> DefaultRecipients,
      streams |-> [NoStreams EXCEPT !["__substg1.0_1000"] = Str(<<"a">>)],
      date |-> Date(2020, 1, 2, 3, 4)] :
        listing \in SeqsUpTo(AttachDirs \cup OtherDirs, MaxDirs),
        att \in [AttachDirs -> Entries]}

InitCommon ==
    /\ phase = "new"
    /\ self = Blank
    /\ last = [op |-> "none", field |-> "", prop |-> 0]
    /\ firstRead = [f \in Fields |-> Unset]
    /\ ops = 0
    /\ recipientSeparator = <<";">>

Init ==
    /\ InitCommon
    /\ delayAttachments \in BOOLEAN
    /\ attachmentErrorBehavior \in
           {ATTACHMENT_ERROR_THROW, ATTACHMENT_ERROR_NOT_IMPLEMENTED, ATTACHMENT_ERROR_BROKEN}
    /\ container \in {c \in LifecycleContainers :
                        \A d \in AttachDirs \ Range(c.listDir) :
                            c.attachment[d] = DefaultAttachments[d]}

Next ==
    \/ Construct
    \/ ReadAttachments
    \/ RegisterNamedProperty
    \/ Close

Spec == Init /\ [][Next]_vars

\* Containers for the body chain: every combination of a plain-text stream,
\* an HTML stream and a compressed-RTF stream, absent, empty or present.
BodyStreams == {None, Str(<<>>), Str(<<"a", "\r", "\n", "b">>)}
HtmlStreams == {None, Bytes(<<"<", "i", ">">>)}
RtfStreams ==
    {None, Bytes(<<>>)} \cup {Bytes(<<t>>) : t \in {"html", "text", "plain", "bad", "empty"}}

FieldContainers ==
    {[listDir |-> <<"__attach_version1.0_#00000000", "__recip_version1.0_#00000000">>,
      attachment |-> [DefaultAttachments EXCEPT !["__attach_version1.0_#00000000"] = att],
      recipient |-> DefaultRecipients,
      streams |-> [NoStreams EXCEPT !["__substg1.0_1000"] = b,
                                    !["__substg1.0_10130102"] = h,
                                    !["__substg1.0_10090102"] = r,
                                    !["__substg1.0_0037"] = Str(<<"s", ":">>)],
      date |-> Date(2020, 1, 2, 3, 4)] :
        b \in BodyStreams, h \in HtmlStreams, r \in RtfStreams,
        att \in {Entry("data", "ok", "ok"), Entry("error", "ok", "ok")}}

InitFields ==
    /\ InitCommon
    /\ delayAttachments = TRUE
    /\ attachmentErrorBehavior = ATTACHMENT_ERROR_THROW
    /\ container \in FieldContainers

NextFields ==
    \/ Construct
    \/ ReadField

SpecFields == InitFields /\ [][NextFields]_vars

---------------------------------------------------------------------------
(* What the properties below talk about. *)

\* The distinct attachment directories the container lists, in the order of
\* their first appearance.
Enumerated ==
    LET names == Range(container.listDir) \cap AttachDirs
        first(d) == CHOOSE i \in 1..Len(container.listDir) :
                        /\ container.listDir[i] = d
                        /\ \A j \in 1..(i - 1) : container.listDir[j] # d
    IN CHOOSE s \in [1..Cardinality(names) -> names] :
           /\ \A d \in names : \E i \in 1..Cardinality(names) : s[i] = d
           /\ \A i, j \in 1..Cardinality(names) : i < j => first(s[i]) < first(s[j])

\* How the construction of the attachment in a directory fails: "none" when
\* it does not.
Failure(d) ==
    IF container.attachment[d].ctor \in {"unrecognized", "error"}
    THEN container.attachment[d].ctor ELSE "none"

\* The failures a policy tolerates, as the specification orders them.
Tolerated(policy, failure) ==
    \/ failure = "none"
    \/ failure = "unrecognized" /\ policy >= ATTACHMENT_ERROR_NOT_IMPLEMENTED
    \/ failure = "error" /\ policy >= ATTACHMENT_ERROR_BROKEN

Untolerated == {i \in 1..Len(Enumerated) : ~Tolerated(attachmentErrorBehavior, Failure(Enumerated[i]))}

ExpectedClass(d) ==
    CASE Failure(d) = "none" -> "Attachment"
      [] Failure(d) = "unrecognized" -> "UnsupportedAttachment"
      [] OTHER -> "BrokenAttachment"

ExpectedException(d) ==
    IF Failure(d) = "unrecognized" THEN Exc("UnrecognizedMSGTypeError") ELSE Exc("Exception")

\* The list holds exactly one entry per enumerated directory, in order, each
\* of the class its construction calls for.
FullList(list) ==
    /\ Len(list) = Len(Enumerated)
    /\ \A i \in 1..Len(list) :
           /\ list[i].dir = Enumerated[i]
           /\ list[i].class = ExpectedClass(Enumerated[i])

ReadOf(field) == ret.op = "read" /\ ret.field = field

Count(x, s) == Cardinality({i \in 1..Len(s) : s[i] = x})

---------------------------------------------------------------------------
(* Properties of the attachment lifecycle (checked under Spec). *)

\* C2: attachment resolution is all-or-nothing: when the construction of an
\* enumerated attachment fails and the policy does not tolerate the failure,
\* every access to attachments fails, and no access returns a list holding
\* only some of the enumerated entries.
AllOrNothing ==
    ReadOf("attachments") =>
        /\ Untolerated # {} => ret.out = "raise"
        /\ ret.out = "return" => Len(ret.val.v) = Len(Enumerated)

\* C3: under ATTACHMENT_ERROR_BROKEN no access to attachments raises, and the
\* list has exactly one entry per distinct enumerated directory, in
\* enumeration order, a failed entry being an UnsupportedAttachment
\* (unrecognized type) or a BrokenAttachment (any other failure).
TolerateAnyError ==
    attachmentErrorBehavior = ATTACHMENT_ERROR_BROKEN =>
        /\ phase # "failed"
        /\ ReadOf("attachments") => ret.out = "return" /\ FullList(ret.val.v)
        /\ self._attachments # Unset => FullList(self._attachments.v)

TolerateAnyErrorWitness ==
    /\ attachmentErrorBehavior = ATTACHMENT_ERROR_BROKEN
    /\ delayAttachments
    /\ ReadOf("attachments")
    /\ ret.out = "return"
    /\ Len(container.listDir) > Len(ret.val.v)
    /\ \E i, j \in 1..Len(ret.val.v) :
           /\ ret.val.v[i].class = "UnsupportedAttachment"
           /\ ret.val.v[j].class = "BrokenAttachment"

\* The step in which the attachments get resolved: the attachment list did
\* not exist before it.
Resolves == self._attachments = Unset /\ self'._attachments # Unset

\* What the policy makes of the enumerated entries: the exception of the
\* first failure it does not tolerate, else the full list.
ResolvedAsPolicySays ==
    IF Untolerated # {}
    THEN LET i == CHOOSE k \in Untolerated : \A l \in Untolerated : k <= l
         IN ret.out = "raise" /\ ret.val = ExpectedException(Enumerated[i])
    ELSE ret.out = "return" /\ FullList(self._attachments.v)

\* Whatever class of placeholder stands in the list under this policy is
\* also put there, not raised, under every more permissive policy.
MorePermissiveTolerates ==
    \A i \in 1..Len(self._attachments.v) : \A policy \in 0..2 :
        (policy > attachmentErrorBehavior /\ self._attachments.v[i].class # "Attachment") =>
            constructAttachment([called(self) EXCEPT !.attachmentErrorBehavior = policy],
                                self._attachments.v[i].dir).exc = None

\* C4: the policies are ordered by tolerance: under THROW any construction
\* failure is propagated; under NOT_IMPLEMENTED an unrecognized type becomes
\* an UnsupportedAttachment and any other failure is propagated; what one
\* level tolerates every more permissive level tolerates.
PolicyOrder ==
    [][Resolves => (ResolvedAsPolicySays' /\ MorePermissiveTolerates')]_vars

PolicyOrderWitness ==
    /\ attachmentErrorBehavior = ATTACHMENT_ERROR_NOT_IMPLEMENTED
    /\ ReadOf("attachments")
    /\ ret.out = "raise"
    /\ ret.val = Exc("Exception")
    /\ Len(self._attachments.v) = 1
    /\ self._attachments.v[1].class = "UnsupportedAttachment"

\* C5: with delayAttachments, __init__ constructs no attachment and returns
\* even when a construction would fail; attachmentsReady stays false and no
\* attachment is constructed until the caller first reads attachments.
\* Without it, the attachments are constructed in __init__ and
\* attachmentsReady is true when __init__ has returned.
TwoPhase ==
    /\ (delayAttachments /\ phase # "new") => phase # "failed"
    /\ (delayAttachments /\ phase # "new" /\ firstRead["attachments"] = Unset) =>
           /\ self.calls.attachmentClass = 0
           /\ ~self.attachmentsReady
           /\ self._attachments = Unset
    /\ (~delayAttachments /\ phase \in {"live", "closed"}) =>
           /\ self.attachmentsReady
           /\ self.calls.attachmentClass = Len(Enumerated)
           /\ Len(self._attachments.v) = Len(Enumerated)

TwoPhaseWitness ==
    /\ delayAttachments
    /\ phase = "live"
    /\ Untolerated # {}
    /\ ret.op = "_registerNamedProperty"
    /\ ops = 2
    /\ firstRead["attachments"] = Unset
    /\ ~self.attachmentsReady

\* No attachment of the container raises when a named property is relayed.
RelaysWork == \A i \in 1..Len(Enumerated) : container.attachment[Enumerated[i]].relay = "ok"

Waiting == IF self.waitingProperties = Unset THEN <<>> ELSE self.waitingProperties.v

\* C6: a registration made before the attachments are ready is queued, and
\* when an access to attachments returns the list every queued registration
\* has been applied exactly once to every attachment in it; a registration
\* made when the attachments are ready is applied to every attachment at
\* once, exactly once, and is not queued.
DeferredDelivery ==
    RelaysWork =>
        /\ (ReadOf("attachments") /\ ret.out = "return") =>
               \A i \in 1..Len(self._attachments.v) : \A k \in 1..Len(Waiting) :
                   Count(Waiting[k], self._attachments.v[i].named) = 1
        /\ (ret.op = "_registerNamedProperty" /\ delayAttachments /\ ~self.attachmentsReady) =>
               Count(ret.prop, Waiting) = 1
        /\ (ret.op = "_registerNamedProperty" /\ self.attachmentsReady) =>
               /\ Count(ret.prop, Waiting) = 0
               /\ \A i \in 1..Len(self._attachments.v) :
                      Count(ret.prop, self._attachments.v[i].named) = 1

\* C7: every call of _registerNamedProperty enters the registration in the
\* message's own table, whatever the state of the attachments and whatever
\* happens while it is relayed to them.
OwnTableAlways ==
    ret.op = "_registerNamedProperty" => Count(ret.prop, self.namedProperties) = 1

\* C8: close() on a message whose attachments are loaded closes the embedded
\* message of every attachment of type 'msg'; when closing one fails the
\* others are closed all the same and the first failure is propagated.
BestEffortTeardown ==
    (ret.op = "close" /\ self._attachments # Unset) =>
        LET list == self._attachments.v
            failing == {i \in 1..Len(list) :
                           list[i].type = "msg" /\ container.attachment[list[i].dir].close # "ok"}
        IN /\ \A i \in 1..Len(list) :
                  (list[i].type = "msg" /\ i \notin failing) => list[i].closed >= 1
           /\ failing # {} => ret.out = "raise"

---------------------------------------------------------------------------
(* Properties of the field resolvers (checked under SpecFields). *)

\* C1: reading a derived field twice gives the same outcome: every read of a
\* field returns exactly what the caller's first read of it returned.
Idempotence ==
    ret.op = "read" => firstRead[ret.field] = [out |-> ret.out, val |-> ret.val]

HtmlStream == container.streams["__substg1.0_10130102"]
RtfStream == container.streams["__substg1.0_10090102"]
BodyStream == container.streams["__substg1.0_1000"]

\* The wrapper the specification describes around a plain-text body.
Wrapper(text) ==
    <<"<html><body>">>
    \o replace(replace(text, <<"\r">>, <<>>), <<"\n">>, <<"<", "/", "b", "r", ">">>)
    \o <<"</body></head>">>

\* C9: htmlBody is the raw HTML stream when there is one; else the UTF-8
\* encoding of the RTF-derived HTML when the RTF content is HTML; else, when
\* a plain-text body exists, the wrapper around the body with every \r
\* removed and every \n replaced by a line-break tag; else None.
HtmlPrecedence ==
    ReadOf("htmlBody") =>
        /\ ret.out = "return"
        /\ IF Truthy(HtmlStream) THEN ret.val = HtmlStream
           ELSE IF RtfStream = Bytes(<<"html">>) THEN ret.val = Bytes(<<"<", "p", ">">>)
           ELSE IF Truthy(self._body)
                THEN ret.val.tag \in {"str", "bytes"} /\ ret.val.v = Wrapper(self._body.v)
                ELSE ret.val = None

\* C10: no resolver other than attachments raises for missing input; htmlBody
\* returns None when there is no HTML stream, no RTF body and no plain-text
\* body.
NoRaiseOnMissingInput ==
    LET nothingForHtml == ~Truthy(HtmlStream) /\ ~Truthy(RtfStream) /\ ~Truthy(BodyStream)
    IN (ret.op = "read" /\ ret.field # "attachments"
            /\ (ret.field = "htmlBody" => nothingForHtml)) =>
           /\ ret.out = "return"
           /\ ret.field = "htmlBody" => ret.val = None

---------------------------------------------------------------------------
(* Properties of the RTF pipeline and the body chain (checked under        *)
(* SpecFields).                                                            *)

\* C15: over any sequence of reads the deencapsulation collaborator is
\* invoked at most once; when the compressed-RTF stream is absent or empty
\* neither it nor the decompression collaborator is invoked, and
\* deencapsulatedRtf is None.
RtfInvocations ==
    /\ self.calls.deencapsulate <= 1
    /\ ~Truthy(RtfStream) =>
           /\ self.calls.decompress = 0
           /\ self.calls.deencapsulate = 0
           /\ self._deencapsultor \in {Unset, None}
           /\ ReadOf("deencapsulatedRtf") => (ret.out = "return" /\ ret.val = None)

RtfInvocationsWitness ==
    /\ RtfStream = Bytes(<<"plain">>)
    /\ self.calls.deencapsulate = 1
    /\ firstRead["body"] # Unset
    /\ firstRead["htmlBody"] # Unset
    /\ ReadOf("deencapsulatedRtf")
    /\ ret.val = None

\* The text of the RTF content when the deencapsulated result is PlainText.
RtfText == IF RtfStream = Bytes(<<"text">>) THEN Str(<<"t", "\n">>) ELSE None

\* C16 as stated: body is the decoded plain-text stream when the stream is
\* present; when it is absent, body is the RTF text if the deencapsulated
\* result is PlainText, and None otherwise.
BodyChainAsStated ==
    ReadOf("body") =>
        /\ ret.out = "return"
        /\ ret.val = IF BodyStream # None THEN Str(BodyStream.v) ELSE RtfText

\* C16 (amended): body is the decoded plain-text stream when the stream is
\* present and not empty; when it is absent or empty, body is the RTF text if
\* the deencapsulated result is PlainText, and otherwise the value of the
\* stream itself (None when absent, the empty string when empty).
BodyChain ==
    ReadOf("body") =>
        /\ ret.out = "return"
        /\ ret.val = IF BodyStream # None /\ Len(BodyStream.v) > 0 THEN Str(BodyStream.v)
                     ELSE IF RtfText # None THEN RtfText
                     ELSE BodyStream

BodyChainWitness ==
    /\ ReadOf("body")
    /\ BodyStream = Str(<<>>)
    /\ RtfStream = Bytes(<<"text">>)
    /\ ret.val = Str(<<"t", "\n">>)

---------------------------------------------------------------------------
(* Readiness of the attachments (checked under Spec). *)

\* C20: whenever an access to attachments returns a list, attachmentsReady
\* is true.
ReadinessInvariant ==
    (ReadOf("attachments") /\ ret.out = "return") => self.attachmentsReady

---------------------------------------------------------------------------
(* The containers for the header, the addresses, the sender and the folder *)
(* name.                                                                   *)

HeaderFields == {"header", "to", "cc", "bcc", "sender", "messageId", "date", "defaultFolderName"}

\* The To field of a raw header: absent, empty, a comma-separated list, and
\* a list folded over a continuation line with a run of spaces.
ToFields ==
    {None, Str(<<>>), Str(<<"a", ",", "b">>),
     Str(<<"a", ",", "\r", "\n", "\t", "b", " ", " ", "c">>)}

\* The date a raw header carries, which is not the date of the properties.
StaleDate == Date(2019, 5, 6, 7, 8)

\* A raw header text: with or without the Date, From, Message-Id and a
\* non-empty Cc field; never with a Bcc field.
RawHeader(toField, full) ==
    (IF full
     THEN <<[name |-> "Date", value |-> StaleDate],
            [name |-> "From", value |-> Str(<<"F">>)],
            [name |-> "Message-Id", value |-> Str(<<"m">>)],
            [name |-> "Cc", value |-> Str(<<"c", ",", "d">>)]>>
     ELSE <<[name |-> "Cc", value |-> Str(<<>>)]>>)
    \o (IF toField = None THEN <<>> ELSE <<[name |-> "To", value |-> toField]>>)

HeaderStreams ==
    {None, Str(<<>>)} \cup {HeaderText(RawHeader(t, f)) : t \in ToFields, f \in BOOLEAN}

\* The recipient entries: none; two of role to; one of role to with high
\* bits set in its type and a run of spaces in its name, and one of role bcc.
RecipientEntries ==
    {[listDir |-> <<>>, recipient |-> DefaultRecipients],
     [listDir |-> <<"__recip_version1.0_#00000000", "__recip_version1.0_#00000001">>,
      recipient |-> [d \in RecipDirs |->
                        IF d = "__recip_version1.0_#00000000"
                        THEN [type |-> 1, formatted |-> Str(<<"B", "o", "b">>)]
                        ELSE [type |-> 1, formatted |-> Str(<<"C", "a", "r", "o", "l">>)]]],
     [listDir |-> <<"__recip_version1.0_#00000000", "__recip_version1.0_#00000001">>,
      recipient |-> [d \in RecipDirs |->
                        IF d = "__recip_version1.0_#00000000"
                        THEN [type |-> 17, formatted |-> Str(<<"D", " ", " ", "E">>)]
                        ELSE [type |-> 3, formatted |-> Str(<<"X">>)]]]}

\* The date of the properties, the subject and the separator configured.
Settings ==
    {[date |-> Date(2020, 1, 2, 3, 4), subject |-> Str(<<"s", ":">>), separator |-> <<";">>],
     [date |-> Date(1999, 12, 31, 23, 59), subject |-> None, separator |-> <<"|">>],
     [date |-> None, subject |-> Str(<<>>), separator |-> <<";">>]}

\* The display-name stream and the email stream of the sender.
SenderStreams ==
    {[text |-> t, email |-> e] : t \in {None, Str(<<"A">>)}, e \in {None, Str(<<"e">>)}}

InitHeaders ==
    /\ phase = "new"
    /\ self = Blank
    /\ last = [op |-> "none", field |-> "", prop |-> 0]
    /\ firstRead = [f \in Fields |-> Unset]
    /\ ops = 0
    /\ delayAttachments = TRUE
    /\ attachmentErrorBehavior = ATTACHMENT_ERROR_THROW
    /\ \E h \in HeaderStreams, r \in RecipientEntries, x \in Settings, y \in SenderStreams :
           /\ recipientSeparator = x.separator
           /\ container =
                  [listDir |-> r.listDir, attachment |-> DefaultAttachments,
                   recipient |-> r.recipient,
                   streams |-> [NoStreams EXCEPT !["__substg1.0_007D"] = h,
                                                 !["__substg1.0_0C1A"] = y.text,
                                                 !["__substg1.0_5D01"] = y.email,
                                                 !["__substg1.0_1035"] = y.text,
                                                 !["__substg1.0_0037"] = x.subject],
                   date |-> x.date]

ReadHeaderField == \E field \in HeaderFields : Read(field)

NextHeaders ==
    \/ Construct
    \/ ReadHeaderField

SpecHeaders == InitHeaders /\ [][NextHeaders]_vars

---------------------------------------------------------------------------
(* Properties of the addresses (checked under SpecHeaders). *)

Roles == {"to", "cc", "bcc"}

RoleCode(role) == CASE role = "to" -> 1 [] role = "cc" -> 2 [] role = "bcc" -> 3

FieldName(role) == CASE role = "to" -> "To" [] role = "cc" -> "Cc" [] role = "bcc" -> "Bcc"

HeaderStream == container.streams["__substg1.0_007D"]

\* The value the raw header stream gives a field: None when there is no raw
\* header or the header has no such field.
RawField(name) ==
    IF ~Truthy(HeaderStream) \/ \A i \in 1..Len(HeaderStream.v) : HeaderStream.v[i].name # name
    THEN None
    ELSE HeaderStream.v[CHOOSE i \in 1..Len(HeaderStream.v) :
                            /\ HeaderStream.v[i].name = name
                            /\ \A j \in 1..(i - 1) : HeaderStream.v[j].name # name].value

Whitespace == {" ", "\r", "\n", "\t"}

\* The words of a string: its maximal runs of characters that are not
\* whitespace (cur is the word being read).
RECURSIVE WordsFrom(_, _)
WordsFrom(s, cur) ==
    IF Len(s) = 0 THEN (IF Len(cur) = 0 THEN <<>> ELSE <<cur>>)
    ELSE IF Head(s) \in Whitespace
         THEN (IF Len(cur) = 0 THEN <<>> ELSE <<cur>>) \o WordsFrom(Tail(s), <<>>)
         ELSE WordsFrom(Tail(s), Append(cur, Head(s)))

Words(s) == WordsFrom(s, <<>>)

\* A single line: no CR, no LF and no two consecutive spaces.
SingleLine(s) ==
    /\ \A i \in 1..Len(s) : s[i] \notin {"\r", "\n"}
    /\ \A i \in 1..(Len(s) - 1) : ~(s[i] = " " /\ s[i + 1] = " ")

\* The string with every comma replaced by the separator.
RECURSIVE CommaReplaced(_, _)
CommaReplaced(s, separator) ==
    IF Len(s) = 0 THEN <<>>
    ELSE (IF Head(s) = "," THEN separator ELSE <<Head(s)>>) \o CommaReplaced(Tail(s), separator)

RECURSIVE MatchingFrom(_, _)
MatchingFrom(dirs, role) ==
    IF Len(dirs) = 0 THEN <<>>
    ELSE (IF Head(dirs) \in RecipDirs /\ container.recipient[Head(dirs)].type % 16 = RoleCode(role)
          THEN <<container.recipient[Head(dirs)].formatted.v>> ELSE <<>>)
         \o MatchingFrom(Tail(dirs), role)

Matching(role) == MatchingFrom(container.listDir, role)

\* The strings joined by the separator followed by one space.
RECURSIVE Joined(_, _)
Joined(parts, separator) ==
    IF Len(parts) = 1 THEN parts[1]
    ELSE parts[1] \o separator \o <<" ">> \o Joined(Tail(parts), separator)

\* C12 as stated: for every role, when the header field is absent or empty
\* the address is the formatted strings of the recipients of the role joined
\* by the separator and a space, and None when no recipient matches.
AddressFromRecipientsAsStated ==
    \A role \in Roles :
        (ReadOf(role) /\ ~Truthy(RawField(FieldName(role)))) =>
            /\ ret.out = "return"
            /\ ret.val = IF Len(Matching(role)) = 0 THEN None
                         ELSE Str(Joined(Matching(role), recipientSeparator))

\* C12 (amended): for every role, when the header field is absent or empty
\* the address is the formatted strings of the recipients of the role joined
\* by the separator and a space and whitespace-normalized (the same words,
\* no CR, no LF, no two consecutive spaces); when no recipient matches it is
\* what the header gave: None for an absent field, the empty string for an
\* empty one.
AddressFromRecipients ==
    \A role \in Roles :
        (ReadOf(role) /\ ~Truthy(RawField(FieldName(role)))) =>
            /\ ret.out = "return"
            /\ IF Len(Matching(role)) = 0 THEN ret.val = RawField(FieldName(role))
               ELSE /\ ret.val.tag = "str"
                    /\ SingleLine(ret.val.v)
                    /\ Words(ret.val.v) = Words(Joined(Matching(role), recipientSeparator))

AddressFromRecipientsWitness ==
    /\ ReadOf("to")
    /\ HeaderStream = None
    /\ recipientSeparator = <<";">>
    /\ Matching("to") = <<(<<"B", "o", "b">>), (<<"C", "a", "r", "o", "l">>)>>
    /\ ret.val = Str(<<"B", "o", "b", ";", " ", "C", "a", "r", "o", "l">>)

---------------------------------------------------------------------------
(* Properties of the header, the sender and the folder name (checked under *)
(* SpecHeaders).                                                           *)

HeaderInitAsStated ==
    phase = "live" => (headerInit(self) <=> Truthy(HeaderStream))

\* C14 (amended): headerInit() reports whether the header has been resolved
\* and stored: false before construction, true in every state after it,
\* whether the header was parsed from a raw header stream or synthesized.
HeaderInitReportsResolved ==
    /\ phase = "new" => ~headerInit(self)
    /\ phase = "live" => headerInit(self)

HeaderInitWitness ==
    /\ phase = "live"
    /\ ~Truthy(HeaderStream)
    /\ ReadOf("header")
    /\ headerInit(self)

NameStream == container.streams["__substg1.0_0C1A"]
EmailStream == container.streams["__substg1.0_5D01"]

\* C17: sender is the From field of the header when the header was there to
\* be read and has one; otherwise 'name <email>' when both streams exist,
\* the name alone without an email, the email alone without a name, and None
\* without both.
SenderResolution ==
    ReadOf("sender") =>
        /\ ret.out = "return"
        /\ ret.val =
              IF RawField("From") # None THEN RawField("From")
              ELSE IF NameStream # None /\ EmailStream # None
                   THEN Str(NameStream.v \o <<" ", "<">> \o EmailStream.v \o <<">">>)
              ELSE IF NameStream # None THEN NameStream
              ELSE EmailStream

SenderResolutionWitness ==
    /\ ReadOf("sender")
    /\ HeaderStream = None
    /\ NameStream = Str(<<"A">>)
    /\ EmailStream = Str(<<"e">>)
    /\ ret.val = Str(<<"A", " ", "<", "e", ">">>)

SubjectStream == container.streams["__substg1.0_0037"]

\* The sanitized subject of the folder name, '[No subject]' without one.
FolderSubject == IF Truthy(SubjectStream) THEN <<"s">> ELSE <<"[No subject]">>

\* The send date as month-day-year_hourminute.
MonthDayYear ==
    CASE container.date = Date(2020, 1, 2, 3, 4) ->
             <<"0", "1", "-", "0", "2", "-", "2", "0", "_", "0", "3", "0", "4">>
      [] container.date = Date(1999, 12, 31, 23, 59) ->
             <<"1", "2", "-", "3", "1", "-", "9", "9", "_", "2", "3", "5", "9">>
      [] OTHER -> <<"UnknownDate">>

\* The send date as year-month-day_hourminute.
YearMonthDay ==
    CASE container.date = Date(2020, 1, 2, 3, 4) ->
             <<"2", "0", "2", "0", "-", "0", "1", "-", "0", "2", "_", "0", "3", "0", "4">>
      [] container.date = Date(1999, 12, 31, 23, 59) ->
             <<"1", "9", "9", "9", "-", "1", "2", "-", "3", "1", "_", "2", "3", "5", "9">>
      [] OTHER -> <<"UnknownDate">>

\* C18 as stated: defaultFolderName is the send date as MM-DD-YY_HHmm, or
\* 'UnknownDate', then a space and the sanitized subject or '[No subject]'.
FolderNameAsStated ==
    ReadOf("defaultFolderName") =>
        ret.val = Str(MonthDayYear \o <<" ">> \o FolderSubject)

\* C18 (amended): defaultFolderName is the send date as YYYY-MM-DD_HHmm
\* (year, then month, then day, then hour and minute), or 'UnknownDate',
\* then a space and the sanitized subject or '[No subject]'.
FolderName ==
    ReadOf("defaultFolderName") =>
        /\ ret.out = "return"
        /\ ret.val = Str(YearMonthDay \o <<" ">> \o FolderSubject)

FolderNameWitness ==
    /\ ReadOf("defaultFolderName")
    /\ container.date = Date(2020, 1, 2, 3, 4)
    /\ ret.val = Str(<<"2", "0", "2", "0", "-", "0", "1", "-", "0", "2", "_",
                       "0", "3", "0", "4", " ", "s">>)

\* The fields of a synthesized header and the resolver each comes from.
Synthesized ==
    {<<"Date", "date">>, <<"From", "sender">>, <<"To", "to">>, <<"Cc", "cc">>,
     <<"Bcc", "bcc">>, <<"Message-Id", "messageId">>}

\* The header was synthesized once: it holds the seven fields, each once.
SynthesizedOnce ==
    [i \in 1..Len(self._header.v) |-> self._header.v[i].name] =
        <<"Date", "From", "To", "Cc", "Bcc", "Message-Id", "Authentication-Results">>

\* C19 as stated: without a raw header stream the header is synthesized
\* once, and each of its fields Date, From, To, Cc, Bcc and Message-Id
\* carries the value every later read of the resolver returns.
HeaderSynthesisAsStated ==
    (phase = "live" /\ ~Truthy(HeaderStream)) =>
        /\ SynthesizedOnce
        /\ \A f \in Synthesized :
               ReadOf(f[2]) => (ret.out = "return" /\ getitem(self._header, f[1]) = ret.val)

\* C19 (amended): as stated, a resolver that returns None being carried by
\* its field as the empty string.
HeaderSynthesis ==
    (phase = "live" /\ ~Truthy(HeaderStream)) =>
        /\ SynthesizedOnce
        /\ \A f \in Synthesized :
               ReadOf(f[2]) =>
                   /\ ret.out = "return"
                   /\ getitem(self._header, f[1]) = IF ret.val = None THEN Str(<<>>) ELSE ret.val

HeaderSynthesisWitness ==
    /\ phase = "live"
    /\ HeaderStream = None
    /\ ReadOf("sender")
    /\ ops = 3
    /\ firstRead["header"] # Unset
    /\ ret.val = Str(<<"A", " ", "<", "e", ">">>)
    /\ getitem(self._header, "From") = ret.val
    /\ getitem(self._header, "To") = Str(<<"B", "o", "b", ";", " ", "C", "a", "r", "o", "l">>)

---------------------------------------------------------------------------
(* close() before the attachments are loaded (checked under Spec). *)

\* The step is a call of close() on a message whose construction deferred
\* the attachments and whose attachments have never been read.
ClosesUnloaded ==
    /\ phase = "live"
    /\ last'.op = "close"
    /\ ops' = ops + 1
    /\ delayAttachments
    /\ firstRead["attachments"] = Unset

\* C21: close() on a message whose attachment list has not been loaded
\* constructs no attachment, closes no embedded message (no list comes to
\* exist), leaves attachmentsReady false and performs the base close.
CloseNeverLoads ==
    [][ClosesUnloaded =>
          /\ self._attachments = Unset
          /\ self'._attachments = Unset
          /\ self'.calls.attachmentClass = 0
          /\ ~self'.attachmentsReady
          /\ self'.exc = None
          /\ self'.closed
          /\ phase' = "closed"]_vars

CloseNeverLoadsWitness ==
    /\ ret.op = "close"
    /\ ret.out = "return"
    /\ ops = 2
    /\ delayAttachments
    /\ firstRead["attachments"] = Unset
    /\ Len(Enumerated) = 2
    /\ Untolerated # {}
    /\ self.waitingProperties = Lst(<<1>>)
    /\ self._attachments = Unset
    /\ self.closed

====
